---- MODULE Spec2Model ----
(***************************************************************************)
(* A model of ShaderCache (src/shader_cache.cpp, src/shader_cache.hpp):    *)
(* the map created_shaders, the static configuration tables, and the       *)
(* graphics driver objects the cache creates, binds and deletes.  The      *)
(* driver and the filesystem are the environment: what they answer (a      *)
(* compile or link status, a location, whether a file can be read) is an   *)
(* input of the action that asks.                                          *)
(***************************************************************************)
EXTENDS Integers, Sequences, FiniteSets, TLC

\* ------------------------------------------------------------------ bounds
\* the longest requested_shaders list given to the constructor
MaxRequested == 2
\* create_shader_program is callable after construction while the driver's
\* next object name is at most this
MaxObjectId == 4

\* ------------------------------------------------------------ enumerations
\* enum class ShaderType, in declaration order
ShaderTypeValues ==
    << "CWL_V_TRANSFORMATION_WITH_SOLID_COLOR",
       "CWL_V_TRANSFORMATION_WITH_TEXTURES",
       "CWL_V_TRANSFORMATION_WITH_TEXTURES_AMBIENT_LIGHTING",
       "CWL_V_TRANSFORMATION_WITH_TEXTURES_AMBIENT_AND_DIFFUSE_LIGHTING",
       "SKYBOX",
       "ABSOLUTE_POSITION_WITH_SOLID_COLOR",
       "TEXT" >>

\* a ShaderType value outside the enumerators (static_cast<ShaderType>(7))
UncataloguedType == "static_cast<ShaderType>(7)"

\* enum class ShaderVertexAttributeVariable, and a value outside it
ShaderVertexAttributeVariableValues ==
    { "POSITION", "XY_POSITION", "PASSTHROUGH_TEXTURE_COORDINATE", "PASSTHROUGH_NORMAL" }

UnregisteredAttribute == "static_cast<ShaderVertexAttributeVariable>(4)"

\* a value outside enum class ShaderUniformVariable
UnregisteredUniform == "static_cast<ShaderUniformVariable>(11)"

\* ------------------------------------------------------------ static tables
\* The tables as shader_cache.hpp lists them; shader_cache.cpp reaches them
\* through its shader_standard member.
\* ShaderCreationInfo of every catalogued type (geometry_path defaults to "")
shader_catalog ==
    [ CWL_V_TRANSFORMATION_WITH_SOLID_COLOR |->
        [ vertex_path |-> "assets/shaders/CWL_v_transformation.vert",
          fragment_path |-> "assets/shaders/solid_color.frag",
          geometry_path |-> "" ],
      CWL_V_TRANSFORMATION_WITH_TEXTURES |->
        [ vertex_path |-> "assets/shaders/CWL_v_transformation_with_texture_coordinate_passthrough.vert",
          fragment_path |-> "assets/shaders/textured.frag",
          geometry_path |-> "" ],
      CWL_V_TRANSFORMATION_WITH_TEXTURES_AMBIENT_LIGHTING |->
        [ vertex_path |-> "assets/shaders/CWL_v_transformation_with_texture_coordinate_passthrough.vert",
          fragment_path |-> "assets/shaders/textured_with_ambient_lighting.frag",
          geometry_path |-> "" ],
      CWL_V_TRANSFORMATION_WITH_TEXTURES_AMBIENT_AND_DIFFUSE_LIGHTING |->
        [ vertex_path |-> "assets/shaders/CWL_v_transformation_with_texture_coordinate_and_normal_passthrough.vert",
          fragment_path |-> "assets/shaders/textured_with_ambient_and_diffuse_lighting.frag",
          geometry_path |-> "" ],
      SKYBOX |->
        [ vertex_path |-> "assets/shaders/cubemap.vert",
          fragment_path |-> "assets/shaders/cubemap.frag",
          geometry_path |-> "" ],
      ABSOLUTE_POSITION_WITH_SOLID_COLOR |->
        [ vertex_path |-> "assets/shaders/absolute_position.vert",
          fragment_path |-> "assets/shaders/solid_color.frag",
          geometry_path |-> "" ],
      TEXT |->
        [ vertex_path |-> "assets/shaders/text.vert",
          fragment_path |-> "assets/shaders/text.frag",
          geometry_path |-> "" ] ]

\* GLVertexAttributeConfiguration of every attribute that has a layout
shader_vertex_attribute_to_glva_configuration ==
    [ POSITION |->
        [ components_per_vertex |-> 3, data_type_of_component |-> "GL_FLOAT",
          normalize |-> "GL_FALSE", stride |-> 0, pointer_to_start_of_data |-> 0 ],
      XY_POSITION |->
        [ components_per_vertex |-> 2, data_type_of_component |-> "GL_FLOAT",
          normalize |-> "GL_FALSE", stride |-> 0, pointer_to_start_of_data |-> 0 ],
      PASSTHROUGH_NORMAL |->
        [ components_per_vertex |-> 3, data_type_of_component |-> "GL_FLOAT",
          normalize |-> "GL_FALSE", stride |-> 0, pointer_to_start_of_data |-> 0 ],
      PASSTHROUGH_TEXTURE_COORDINATE |->
        [ components_per_vertex |-> 2, data_type_of_component |-> "GL_FLOAT",
          normalize |-> "GL_FALSE", stride |-> 0, pointer_to_start_of_data |-> 0 ] ]

shader_uniform_variable_to_name ==
    [ CAMERA_TO_CLIP |-> "camera_to_clip",
      WORLD_TO_CAMERA |-> "world_to_camera",
      LOCAL_TO_WORLD |-> "local_to_world",
      SKYBOX_TEXTURE_UNIT |-> "skybox_texture_unit",
      TEXT_TEXTURE_UNIT |-> "text_texture_unit",
      COLOR |-> "color",
      RGB_COLOR |-> "rgb_color",
      RGBA_COLOR |-> "rgba_color",
      AMBIENT_LIGHT_COLOR |-> "ambient_light_color",
      AMBIENT_LIGHT_STRENGTH |-> "ambient_light_strength",
      DIFFUSE_LIGHT_POSITION |-> "diffuse_light_position" ]

shader_to_used_vertex_attribute_variables ==
    [ CWL_V_TRANSFORMATION_WITH_TEXTURES |-> << "POSITION", "PASSTHROUGH_TEXTURE_COORDINATE" >>,
      CWL_V_TRANSFORMATION_WITH_SOLID_COLOR |-> << "POSITION" >>,
      SKYBOX |-> << "POSITION" >>,
      ABSOLUTE_POSITION_WITH_SOLID_COLOR |-> << "POSITION" >>,
      TEXT |-> << "XY_POSITION", "PASSTHROUGH_TEXTURE_COORDINATE" >> ]

shader_vertex_attribute_variable_to_name ==
    [ POSITION |-> "position",
      XY_POSITION |-> "xy_position",
      PASSTHROUGH_TEXTURE_COORDINATE |-> "passthrough_texture_coordinate",
      PASSTHROUGH_NORMAL |-> "passthrough_normal" ]

\* ------------------------------------------------------------------ inputs
\* two catalogued types and one that is not
InputTypes == { ShaderTypeValues[1], ShaderTypeValues[5], UncataloguedType }
InputUniforms == { "CAMERA_TO_CLIP", UnregisteredUniform }
InputAttributes == { "POSITION", UnregisteredAttribute }
\* the locations the driver answers with; -1 is "no such name"
Locations == { -1, 0 }
\* the driver's GL_MAX_VERTEX_ATTRIBS
MaxVertexAttribs == 2^4
\* the vertex array objects and buffer objects the caller owns
VAOs == { 1 }
VBOs == { 1 }

\* what the filesystem and the driver answer during one attach_shader: a
\* source that could not be read is empty and does not compile
AttachOutcomes ==
    { a \in [ file_ok : BOOLEAN, compile_ok : BOOLEAN ] : a.compile_ok => a.file_ok }

AttachOk == [ file_ok |-> TRUE, compile_ok |-> TRUE ]

\* what they answer during one create_shader_program: each stage reads and
\* compiles or fails on its own, and a program links only when each of its
\* stages compiled.  No catalogued type has a geometry stage, so the answers
\* for one are never asked for.
CreateOutcomes ==
    { d \in [ vertex : AttachOutcomes, fragment : AttachOutcomes,
              geometry : { AttachOk }, link_ok : BOOLEAN ] :
        d.link_ok => (d.vertex.compile_ok /\ d.fragment.compile_ok) }

\* the set_uniform overloads, by the type of the value
SetUniformOverloads ==
    { "bool", "int", "float", "vec2", "float2", "vec3", "float3", "vec4",
      "vector<vec4>", "float4", "mat2", "mat3", "mat4" }

NoException == "none"

VARIABLES
    phase,            \* "unconstructed", "alive", "construction_failed", "destroyed"
    created_shaders,  \* ShaderCache::created_shaders: ShaderType -> ShaderProgramInfo
    next_id,          \* the next object name the driver hands out
    live_programs,    \* driver: the program objects that exist (glIsProgram)
    linked_programs,  \* driver: program objects whose last link succeeded
    live_shaders,     \* driver: the shader-stage objects that exist (glIsShader)
    attached,         \* driver: <<program, shader>> of the attached stages
    flagged_programs, \* driver: programs flagged for deletion (GL_DELETE_STATUS)
    flagged_shaders,  \* driver: stages flagged for deletion (GL_DELETE_STATUS)
    active_program,   \* driver: the program made current by glUseProgram
    bound_vao,        \* driver: the bound vertex array object
    bound_buffer,     \* driver: the buffer bound to GL_ARRAY_BUFFER
    enabled_slots,    \* driver: <<vao, index>> of the enabled attribute arrays
    obtained,         \* the handles glCreateProgram returned, per ShaderType, in call order
    last              \* the last operation: its arguments, result and driver calls

vars == << phase, created_shaders, next_id, live_programs, linked_programs, live_shaders,
           attached, flagged_programs, flagged_shaders,
           active_program, bound_vao, bound_buffer, enabled_slots, obtained, last >>

\* ---------------------------------------------------------------- handlers
\* A handler is an operator from the state it starts in to the state it ends
\* in.  The state is a record of the variables above plus the handler's own
\* outcome: calls (the driver and logger calls it made, in order), raised
\* (the exception that left it, or NoException) and ret (what it returned).

TypeNotFound == "std::runtime_error: Shader type not found"
ProgramNotFound == "std::runtime_error: Shader program not found for type"
OutOfRange == "std::out_of_range"

\* GLuint is 32 bits wide: a value as its two 16-bit halves
GLuintHalf == 2^16
ToGLuint(x) == [ hi |-> (x \div GLuintHalf) % GLuintHalf, lo |-> x % GLuintHalf ]

Call(s, c) == [ s EXCEPT !.calls = Append(@, c) ]
Throw(s, e) == [ s EXCEPT !.raised = e ]
Raised(s) == s.raised # NoException

\* the state a handler starts in
Entry ==
    [ created_shaders |-> created_shaders, next_id |-> next_id,
      live_programs |-> live_programs, linked_programs |-> linked_programs,
      live_shaders |-> live_shaders, attached |-> attached,
      flagged_programs |-> flagged_programs, flagged_shaders |-> flagged_shaders,
      active_program |-> active_program,
      bound_vao |-> bound_vao, bound_buffer |-> bound_buffer,
      enabled_slots |-> enabled_slots, obtained |-> obtained,
      calls |-> << >>, raised |-> NoException, ret |-> 0 ]

\* -- the driver ----------------------------------------------------------
glCreateProgram(s) ==
    LET id == s.next_id
    IN  [ Call(s, [ fn |-> "glCreateProgram", result |-> id ])
            EXCEPT !.next_id = id + 1, !.live_programs = @ \cup { id }, !.ret = id ]

glCreateShader(s, shader_type) ==
    LET id == s.next_id
    IN  [ Call(s, [ fn |-> "glCreateShader", shader_type |-> shader_type, result |-> id ])
            EXCEPT !.next_id = id + 1, !.live_shaders = @ \cup { id }, !.ret = id ]

glAttachShader(s, program, shader) ==
    [ Call(s, [ fn |-> "glAttachShader", program |-> program, shader |-> shader ])
        EXCEPT !.attached = @ \cup { << program, shader >> } ]

\* the stages attached to a program
StagesOf(s, program) == { shader \in s.live_shaders : << program, shader >> \in s.attached }

\* whether a stage is attached to some program
IsAttached(s, shader) == \E program \in s.live_programs : << program, shader >> \in s.attached

\* a variant in which the stage object is never released
glDeleteShader_omitted(s, shader) == s

\* a stage that is attached to a program is only flagged for deletion: the
\* object stays, attached, until the program lets go of it
glDeleteShader(s, shader) ==
    LET c == Call(s, [ fn |-> "glDeleteShader", shader |-> shader ])
    IN  IF shader \notin s.live_shaders THEN c
        ELSE IF IsAttached(s, shader)
        THEN [ c EXCEPT !.flagged_shaders = @ \cup { shader } ]
        ELSE [ c EXCEPT !.live_shaders = @ \ { shader } ]

\* the driver frees a program: its stages are detached, and those flagged
\* for deletion that no other program holds go with it
FreeProgram(s, program) ==
    LET stages == StagesOf(s, program)
        rest == { a \in s.attached : a[1] # program }
        freed == { shader \in stages \cap s.flagged_shaders :
                     \A a \in rest : a[2] # shader }
    IN  [ s EXCEPT !.live_programs = @ \ { program },
                   !.linked_programs = @ \ { program },
                   !.flagged_programs = @ \ { program },
                   !.attached = rest,
                   !.live_shaders = @ \ freed,
                   !.flagged_shaders = @ \ freed ]

\* the current program is only flagged for deletion: it stays, and stays
\* current, until another program is made current
glDeleteProgram(s, program) ==
    LET c == Call(s, [ fn |-> "glDeleteProgram", program |-> program ])
    IN  IF program \notin s.live_programs THEN c
        ELSE IF program = s.active_program
        THEN [ c EXCEPT !.flagged_programs = @ \cup { program } ]
        ELSE FreeProgram(c, program)

\* glUseProgram(0) unbinds; a program that is not linked cannot be made
\* current (GL_INVALID_OPERATION, the current program stays).  A program
\* flagged for deletion is freed when it stops being current.
glUseProgram(s, program) ==
    LET c == Call(s, [ fn |-> "glUseProgram", program |-> program ])
        previous == s.active_program
        c1 == [ c EXCEPT !.active_program = program ]
    IN  IF program = 0 \/ program \in s.linked_programs
        THEN IF previous # program /\ previous \in s.flagged_programs
             THEN FreeProgram(c1, previous)
             ELSE c1
        ELSE c

glBindVertexArray(s, vao) ==
    [ Call(s, [ fn |-> "glBindVertexArray", array |-> vao ]) EXCEPT !.bound_vao = vao ]

glBindBuffer(s, buffer) ==
    [ Call(s, [ fn |-> "glBindBuffer", target |-> "GL_ARRAY_BUFFER", buffer |-> buffer ])
        EXCEPT !.bound_buffer = buffer ]

\* an index the driver accepts (below GL_MAX_VERTEX_ATTRIBS)
ValidAttribIndex(index) == index.hi = 0 /\ index.lo < MaxVertexAttribs

\* enables the array of the bound vertex array object; an index that is not
\* valid is GL_INVALID_VALUE and enables nothing
glEnableVertexAttribArray(s, index) ==
    LET c == Call(s, [ fn |-> "glEnableVertexAttribArray", index |-> index ])
    IN  IF ValidAttribIndex(index)
        THEN [ c EXCEPT !.enabled_slots = @ \cup { << s.bound_vao, index.lo >> } ]
        ELSE c

\* the locations the driver can answer for a name of a program: -1 for a
\* program that is not linked and for the empty name
LocationAnswers(linked, program, name) ==
    IF program \in linked /\ name # "" THEN Locations ELSE { -1 }

\* -- ShaderCache ---------------------------------------------------------
Log(s, level, message) ==
    Call(s, [ fn |-> "console_logger", level |-> level, message |-> message ])

\* a variant that drops the pair
created_shaders_insert_nothing(map, type, info) == map

\* created_shaders.insert({type, info}): std::unordered_map::insert adds the
\* pair only when the key is absent
created_shaders_insert(map, type, info) ==
    IF type \in DOMAIN map THEN map ELSE map @@ (type :> info)

\* a variant that looks the type up with operator[], which adds a
\* value-initialised entry for an absent key instead of failing
get_shader_program_subscript(s, type) ==
    IF type \in DOMAIN s.created_shaders
    THEN [ s EXCEPT !.ret = s.created_shaders[type] ]
    ELSE [ s EXCEPT !.created_shaders = @ @@ (type :> [ id |-> 0 ]), !.ret = [ id |-> 0 ] ]

get_shader_program(s, type) ==
    IF type \in DOMAIN s.created_shaders
    THEN [ s EXCEPT !.ret = s.created_shaders[type] ]
    ELSE Throw(s, ProgramNotFound)

\* a variant that unbinds the current program before it looks the type up
use_shader_program_unbind_first(s, type) ==
    LET s0 == glUseProgram(s, 0)
        shader_info == get_shader_program(s0, type)
    IN  IF Raised(shader_info) THEN shader_info
        ELSE glUseProgram(shader_info, shader_info.ret.id)

use_shader_program(s, type) ==
    LET shader_info == get_shader_program(s, type)
    IN  IF Raised(shader_info) THEN shader_info
        ELSE glUseProgram(shader_info, shader_info.ret.id)

stop_using_shader_program(s) == glUseProgram(s, 0)

\* reads the file (a failure to read is caught and logged, the source stays
\* empty), creates and compiles the stage (a failure is logged), attaches it
attach_shader(s, program, path, shader_type, d) ==
    LET s1 == IF d.file_ok THEN s
              ELSE Log(s, "error", "ERROR::SHADER::FILE_NOT_SUCCESSFULLY_READ")
        s2 == glCreateShader(s1, shader_type)
        shader == s2.ret
        s3 == Call(s2, [ fn |-> "glCompileShader", shader |-> shader,
                         source_read |-> d.file_ok, success |-> d.compile_ok ])
        s4 == IF d.compile_ok THEN s3
              ELSE Log(s3, "error", "ERROR::SHADER::COMPILATION_FAILED")
        s5 == glAttachShader(s4, program, shader)
    IN  [ s5 EXCEPT !.ret = shader ]

\* a variant that escalates a link failure
link_program_throwing(s, program, link_ok) ==
    LET s1 == [ Call(s, [ fn |-> "glLinkProgram", program |-> program, success |-> link_ok ])
                  EXCEPT !.linked_programs =
                      IF link_ok THEN @ \cup { program } ELSE @ \ { program } ]
    IN  IF link_ok THEN Log(s1, "info", "Successfully linked shader program")
        ELSE Throw(Log(s1, "error", "ERROR::PROGRAM::LINKING_FAILED"),
                   "std::runtime_error: link failed")

link_program(s, program, link_ok) ==
    LET s1 == [ Call(s, [ fn |-> "glLinkProgram", program |-> program, success |-> link_ok ])
                  EXCEPT !.linked_programs =
                      IF link_ok THEN @ \cup { program } ELSE @ \ { program } ]
    IN  IF link_ok THEN Log(s1, "info", "Successfully linked shader program")
        ELSE Log(s1, "error", "ERROR::PROGRAM::LINKING_FAILED")

\* create_shader_program once the catalog holds the type
create_from_info(s, type, shader_info, d) ==
    LET s0 == Log(s, "info", "creating new shader program")
        s1 == glCreateProgram(s0)
        shader_program == s1.ret
        s2 == attach_shader(s1, shader_program, shader_info.vertex_path,
                            "GL_VERTEX_SHADER", d.vertex)
        vertex_shader == s2.ret
        s3 == attach_shader(s2, shader_program, shader_info.fragment_path,
                            "GL_FRAGMENT_SHADER", d.fragment)
        fragment_shader == s3.ret
        s4 == IF shader_info.geometry_path # ""
              THEN attach_shader(s3, shader_program, shader_info.geometry_path,
                                 "GL_GEOMETRY_SHADER", d.geometry)
              ELSE [ s3 EXCEPT !.ret = 0 ]
        geometry_shader == s4.ret
        s5 == link_program(s4, shader_program, d.link_ok)
        s6 == glDeleteShader(s5, vertex_shader)
        s7 == glDeleteShader(s6, fragment_shader)
        s8 == IF geometry_shader # 0 THEN glDeleteShader(s7, geometry_shader) ELSE s7
    IN  [ s8 EXCEPT
            !.created_shaders = created_shaders_insert(@, type, [ id |-> shader_program ]),
            !.obtained = [ @ EXCEPT ![type] = Append(@, shader_program) ],
            !.ret = 0 ]

\* a variant that asks the driver for the program before it looks the type up
create_shader_program_program_first(s, type, d) ==
    IF type \notin DOMAIN shader_catalog
    THEN Throw(glCreateProgram(s), TypeNotFound)
    ELSE create_from_info(s, type, shader_catalog[type], d)

create_shader_program(s, type, d) ==
    IF type \notin DOMAIN shader_catalog
    THEN Throw(s, TypeNotFound)
    ELSE create_from_info(s, type, shader_catalog[type], d)

\* the orders in which a loop over created_shaders can meet its keys: the
\* iteration order of std::unordered_map is unspecified
IterationOrders(map) ==
    { order \in [ 1..Cardinality(DOMAIN map) -> DOMAIN map ] :
        \A i, j \in DOMAIN order : order[i] = order[j] => i = j }

\* log_shader_program_info names each entry through shader_type_to_name,
\* a table that is not among the sources; every created type is catalogued.
RECURSIVE log_entries(_, _, _)
log_entries(s, iteration, i) ==
    IF i > Len(iteration) THEN s
    ELSE log_entries(Call(s, [ fn |-> "console_logger", level |-> "info",
                               message |-> "Shader Type, Program ID",
                               type |-> iteration[i],
                               id |-> s.created_shaders[iteration[i]].id ]),
                     iteration, i + 1)

\* iteration is the order in which the loop meets the keys
log_shader_program_info(s, iteration) ==
    LET s1 == Log(s, "info", "Logging Created Shaders:")
        s2 == Log(s1, "info", "Total shaders")
    IN  log_entries(s2, iteration, 1)

\* one pass of the constructor's loop; an exception thrown by an earlier pass
\* has left the loop, so the passes after it do nothing
create_next_requested(s, type, d) ==
    IF Raised(s) THEN s ELSE create_shader_program(s, type, d)

\* the constructor's loop from the i-th requested type on
RECURSIVE create_requested(_, _, _, _)
create_requested(s, requested_shaders, outcomes, i) ==
    IF i > Len(requested_shaders) THEN s
    ELSE create_requested(create_next_requested(s, requested_shaders[i], outcomes[i]),
                          requested_shaders, outcomes, i + 1)

\* the constructor's loop over requested_shaders
create_all_requested(s, requested_shaders, outcomes) ==
    create_requested(s, requested_shaders, outcomes, 1)

\* iteration is the order in which the log's loop meets the created entries
ShaderCache(s, requested_shaders, outcomes, iteration) ==
    LET r == create_all_requested(s, requested_shaders, outcomes)
    IN  IF Raised(r) THEN r ELSE log_shader_program_info(r, iteration)

RECURSIVE delete_programs(_, _, _)
delete_programs(s, iteration, i) ==
    IF i > Len(iteration) THEN s
    ELSE delete_programs(glDeleteProgram(s, s.created_shaders[iteration[i]].id),
                         iteration, i + 1)

\* iteration is the order in which the destructor's loop meets the entries
Destructor(s, iteration) == delete_programs(s, iteration, 1)

get_uniform_name(s, uniform) ==
    IF uniform \in DOMAIN shader_uniform_variable_to_name
    THEN [ s EXCEPT !.ret = shader_uniform_variable_to_name[uniform] ]
    ELSE [ Log(s, "warn", "Uniform variable enum not found in allowed names.")
             EXCEPT !.ret = "" ]

get_gl_vertex_attribute_configuration_for_vertex_attribute_variable(s, variable) ==
    IF variable \in DOMAIN shader_vertex_attribute_to_glva_configuration
    THEN [ s EXCEPT !.ret = shader_vertex_attribute_to_glva_configuration[variable] ]
    ELSE Throw(Log(s, "error", "no gl vertex attribute configuration"), OutOfRange)

get_used_vertex_attribute_variables_for_shader(s, type) ==
    IF type \in DOMAIN shader_to_used_vertex_attribute_variables
    THEN [ s EXCEPT !.ret = shader_to_used_vertex_attribute_variables[type] ]
    ELSE Throw(Log(s, "error", "no vertex attribute variables"), OutOfRange)

get_vertex_attribute_variable_name(s, variable) ==
    IF variable \in DOMAIN shader_vertex_attribute_variable_to_name
    THEN [ s EXCEPT !.ret = shader_vertex_attribute_variable_to_name[variable] ]
    ELSE Throw(Log(s, "error", "no name in the mapping"), OutOfRange)

\* location is what the driver answers to glGetUniformLocation
get_uniform_location(s, type, uniform, location) ==
    LET shader_info == get_shader_program(s, type)
        s1 == get_uniform_name(shader_info, uniform)
        s2 == Call(s1, [ fn |-> "glGetUniformLocation", program |-> shader_info.ret.id,
                         name |-> s1.ret, result |-> location ])
        s3 == IF location = -1
              THEN Log(get_uniform_name(s2, uniform), "error",
                       "Uniform not found in shader program.")
              ELSE s2
    IN  IF Raised(shader_info) THEN shader_info
        ELSE [ s3 EXCEPT !.ret = location ]

\* the driver's upload call of each overload
UploadCall(overload) ==
    CASE overload \in { "bool", "int" } -> "glUniform1i"
      [] overload = "float" -> "glUniform1f"
      [] overload = "vec2" -> "glUniform2fv"
      [] overload = "float2" -> "glUniform2f"
      [] overload = "vec3" -> "glUniform3fv"
      [] overload = "float3" -> "glUniform3f"
      [] overload \in { "vec4", "vector<vec4>" } -> "glUniform4fv"
      [] overload = "float4" -> "glUniform4f"
      [] overload = "mat2" -> "glUniformMatrix2fv"
      [] overload = "mat3" -> "glUniformMatrix3fv"
      [] overload = "mat4" -> "glUniformMatrix4fv"

glUniform(s, overload, location) ==
    Call(s, [ fn |-> UploadCall(overload), upload |-> TRUE, location |-> location,
              program |-> s.active_program ])

\* the older variant, which leaves it to the caller to make the program
\* current
set_uniform_caller_activates(s, type, uniform, overload, count, location) ==
    LET s2 == get_uniform_location(s, type, uniform, location)
        s3 == IF s2.ret # -1 /\ count # 0 THEN glUniform(s2, overload, s2.ret) ELSE s2
    IN  IF Raised(s2) THEN s2
        ELSE [ s3 EXCEPT !.ret = 0 ]

\* a variant that uploads without looking at the location
set_uniform_unchecked(s, type, uniform, overload, count, location) ==
    LET s1 == use_shader_program(s, type)
        s2 == get_uniform_location(s1, type, uniform, location)
    IN  IF Raised(s1) THEN s1
        ELSE IF Raised(s2) THEN s2
        ELSE [ glUniform(s2, overload, s2.ret) EXCEPT !.ret = 0 ]

\* count is values.size() of the vector<vec4> overload (1 for the others)
set_uniform(s, type, uniform, overload, count, location) ==
    LET s1 == use_shader_program(s, type)
        s2 == get_uniform_location(s1, type, uniform, location)
        s3 == IF overload = "vector<vec4>"
              THEN IF s2.ret = -1
                   THEN Call(get_uniform_name(s2, uniform),
                             [ fn |-> "fprintf", message |-> "Uniform not found in shader program." ])
                   ELSE IF count = 0
                        THEN Call(get_uniform_name(s2, uniform),
                                  [ fn |-> "fprintf", message |-> "Warning: empty vec4 array" ])
                        ELSE glUniform(s2, overload, s2.ret)
              ELSE IF s2.ret # -1 THEN glUniform(s2, overload, s2.ret) ELSE s2
    IN  IF Raised(s1) THEN s1
        ELSE IF Raised(s2) THEN s2
        ELSE [ s3 EXCEPT !.ret = 0 ]

RECURSIVE get_active_uniforms(_, _, _, _)
get_active_uniforms(s, program, i, num_uniforms) ==
    IF i >= num_uniforms THEN s
    ELSE get_active_uniforms(
             Call(s, [ fn |-> "glGetActiveUniform", program |-> program, index |-> i ]),
             program, i + 1, num_uniforms)

\* num_uniforms is what the driver answers for GL_ACTIVE_UNIFORMS
print_out_active_uniforms_in_shader(s, type, num_uniforms) ==
    LET shader_info == get_shader_program(s, type)
        s1 == Call(shader_info, [ fn |-> "glGetProgramiv", program |-> shader_info.ret.id,
                                  pname |-> "GL_ACTIVE_UNIFORMS", result |-> num_uniforms ])
    IN  IF Raised(shader_info) THEN shader_info
        ELSE [ get_active_uniforms(s1, shader_info.ret.id, 0, num_uniforms) EXCEPT !.ret = 0 ]

glVertexAttribPointer(s, index, config) ==
    Call(s, [ fn |-> "glVertexAttribPointer", index |-> index, vao |-> s.bound_vao,
              buffer |-> s.bound_buffer, valid |-> ValidAttribIndex(index),
              size |-> config.components_per_vertex, type |-> config.data_type_of_component,
              normalized |-> config.normalize, stride |-> config.stride,
              pointer |-> config.pointer_to_start_of_data ])

glVertexAttribIPointer(s, index, config) ==
    Call(s, [ fn |-> "glVertexAttribIPointer", index |-> index, vao |-> s.bound_vao,
              buffer |-> s.bound_buffer, valid |-> ValidAttribIndex(index),
              size |-> config.components_per_vertex, type |-> config.data_type_of_component,
              stride |-> config.stride, pointer |-> config.pointer_to_start_of_data ])

\* location is what the driver answers to glGetAttribLocation; the code keeps
\* it in a GLuint
configure_vertex_attributes_for_drawables_vao(s, vertex_attribute_object, vertex_buffer_object, type, variable, location) ==
    LET shader_program_info == get_shader_program(s, type)
        s1 == glBindVertexArray(shader_program_info, vertex_attribute_object)
        s2 == glBindBuffer(s1, vertex_buffer_object)
        s3 == get_gl_vertex_attribute_configuration_for_vertex_attribute_variable(s2, variable)
        config == s3.ret
        s4 == get_vertex_attribute_variable_name(s3, variable)
        svav_name == s4.ret
        s5 == Log(s4, "info", "Binding vertex attribute")
        s6 == Call(s5, [ fn |-> "glGetAttribLocation", program |-> shader_program_info.ret.id,
                         name |-> svav_name, result |-> location ])
        vertex_attribute_location == ToGLuint(location)
        s7 == glEnableVertexAttribArray(s6, vertex_attribute_location)
        s8 == IF config.data_type_of_component \notin { "GL_INT", "GL_UNSIGNED_INT" }
              THEN glVertexAttribPointer(s7, vertex_attribute_location, config)
              ELSE glVertexAttribIPointer(s7, vertex_attribute_location, config)
    IN  IF Raised(shader_program_info) THEN shader_program_info
        ELSE IF Raised(s3) THEN s3
        ELSE IF Raised(s4) THEN s4
        ELSE [ glBindVertexArray(s8, 0) EXCEPT !.ret = 0 ]

\* ----------------------------------------------------------------- actions
\* the handler's end state r becomes the state; last records the operation
Commit(r, op, args, ph) ==
    /\ phase' = ph
    /\ created_shaders' = r.created_shaders
    /\ next_id' = r.next_id
    /\ live_programs' = r.live_programs
    /\ linked_programs' = r.linked_programs
    /\ live_shaders' = r.live_shaders
    /\ attached' = r.attached
    /\ flagged_programs' = r.flagged_programs
    /\ flagged_shaders' = r.flagged_shaders
    /\ active_program' = r.active_program
    /\ bound_vao' = r.bound_vao
    /\ bound_buffer' = r.bound_buffer
    /\ enabled_slots' = r.enabled_slots
    /\ obtained' = r.obtained
    /\ last' = [ op |-> op, args |-> args, raised |-> r.raised, ret |-> r.ret,
                 calls |-> r.calls ]

\* what the driver can answer for a uniform / attribute name of type's program
UniformAnswers(type, uniform) ==
    IF type \notin DOMAIN created_shaders THEN { -1 }
    ELSE LocationAnswers(linked_programs, created_shaders[type].id,
                         IF uniform \in DOMAIN shader_uniform_variable_to_name
                         THEN shader_uniform_variable_to_name[uniform] ELSE "")

AttributeAnswers(type, variable) ==
    IF type \notin DOMAIN created_shaders
       \/ variable \notin DOMAIN shader_vertex_attribute_variable_to_name
    THEN { -1 }
    ELSE LocationAnswers(linked_programs, created_shaders[type].id,
                         shader_vertex_attribute_variable_to_name[variable])

ActiveUniformAnswers(type) ==
    IF type \in DOMAIN created_shaders /\ created_shaders[type].id \in linked_programs
    THEN { 0, 1, 2 } ELSE { 0 }

Init ==
    /\ phase = "unconstructed"
    /\ created_shaders = [ t \in {} |-> [ id |-> 0 ] ]
    /\ next_id = 1
    /\ live_programs = {}
    /\ linked_programs = {}
    /\ live_shaders = {}
    /\ attached = {}
    /\ flagged_programs = {}
    /\ flagged_shaders = {}
    /\ active_program = 0
    /\ bound_vao = 0
    /\ bound_buffer = 0
    /\ enabled_slots = {}
    /\ obtained = [ t \in InputTypes |-> << >> ]
    /\ last = [ op |-> "none", args |-> << >>, raised |-> NoException, ret |-> 0,
                calls |-> << >> ]

\* ShaderCache::ShaderCache; when create_shader_program throws the object is
\* never constructed and its destructor never runs
Construct ==
    /\ phase = "unconstructed"
    /\ \E n \in 0..MaxRequested :
         \E requested_shaders \in [ 1..n -> InputTypes ], outcomes \in [ 1..n -> CreateOutcomes ] :
            \E iteration \in IterationOrders(
                    create_all_requested(Entry, requested_shaders, outcomes).created_shaders) :
               LET r == ShaderCache(Entry, requested_shaders, outcomes, iteration)
               IN  Commit(r, "ShaderCache", [ requested_shaders |-> requested_shaders ],
                          IF Raised(r) THEN "construction_failed" ELSE "alive")

Destroy ==
    /\ phase = "alive"
    /\ \E iteration \in IterationOrders(created_shaders) :
         Commit(Destructor(Entry, iteration), "~ShaderCache", << >>, "destroyed")

CreateShaderProgram ==
    /\ phase = "alive"
    /\ next_id <= MaxObjectId
    /\ \E type \in InputTypes, d \in CreateOutcomes :
         Commit(create_shader_program(Entry, type, d), "create_shader_program",
                [ type |-> type ], phase)

GetShaderProgram ==
    /\ phase = "alive"
    /\ \E type \in InputTypes :
         Commit(get_shader_program(Entry, type), "get_shader_program", [ type |-> type ], phase)

UseShaderProgram ==
    /\ phase = "alive"
    /\ \E type \in InputTypes :
         Commit(use_shader_program(Entry, type), "use_shader_program", [ type |-> type ], phase)

StopUsingShaderProgram ==
    /\ phase = "alive"
    /\ Commit(stop_using_shader_program(Entry), "stop_using_shader_program", << >>, phase)

PrintOutActiveUniforms ==
    /\ phase = "alive"
    /\ \E type \in InputTypes :
         \E num_uniforms \in ActiveUniformAnswers(type) :
            Commit(print_out_active_uniforms_in_shader(Entry, type, num_uniforms),
                   "print_out_active_uniforms_in_shader", [ type |-> type ], phase)

ConfigureVertexAttributes ==
    /\ phase = "alive"
    /\ \E vao \in VAOs, vbo \in VBOs, type \in InputTypes, variable \in InputAttributes :
         \E location \in AttributeAnswers(type, variable) :
            Commit(configure_vertex_attributes_for_drawables_vao(
                       Entry, vao, vbo, type, variable, location),
                   "configure_vertex_attributes_for_drawables_vao",
                   [ vao |-> vao, vbo |-> vbo, type |-> type, variable |-> variable,
                     location |-> location ], phase)

GetUniformName ==
    /\ phase = "alive"
    /\ \E uniform \in InputUniforms :
         Commit(get_uniform_name(Entry, uniform), "get_uniform_name",
                [ uniform |-> uniform ], phase)

GetGLVertexAttributeConfiguration ==
    /\ phase = "alive"
    /\ \E variable \in InputAttributes :
         Commit(get_gl_vertex_attribute_configuration_for_vertex_attribute_variable(Entry, variable),
                "get_gl_vertex_attribute_configuration_for_vertex_attribute_variable",
                [ variable |-> variable ], phase)

GetUsedVertexAttributeVariables ==
    /\ phase = "alive"
    /\ \E type \in InputTypes :
         Commit(get_used_vertex_attribute_variables_for_shader(Entry, type),
                "get_used_vertex_attribute_variables_for_shader", [ type |-> type ], phase)

GetVertexAttributeVariableName ==
    /\ phase = "alive"
    /\ \E variable \in InputAttributes :
         Commit(get_vertex_attribute_variable_name(Entry, variable),
                "get_vertex_attribute_variable_name", [ variable |-> variable ], phase)

GetUniformLocation ==
    /\ phase = "alive"
    /\ \E type \in InputTypes, uniform \in InputUniforms :
         \E location \in UniformAnswers(type, uniform) :
            Commit(get_uniform_location(Entry, type, uniform, location),
                   "get_uniform_location",
                   [ type |-> type, uniform |-> uniform, location |-> location ], phase)

SetUniform ==
    /\ phase = "alive"
    /\ \E type \in InputTypes, uniform \in InputUniforms, overload \in SetUniformOverloads :
         \E count \in (IF overload = "vector<vec4>" THEN { 0, 2 } ELSE { 1 }),
            location \in UniformAnswers(type, uniform) :
            Commit(set_uniform(Entry, type, uniform, overload, count, location),
                   "set_uniform",
                   [ type |-> type, uniform |-> uniform, overload |-> overload,
                     count |-> count, location |-> location ], phase)

Next ==
    \/ Construct
    \/ Destroy
    \/ CreateShaderProgram
    \/ GetShaderProgram
    \/ UseShaderProgram
    \/ StopUsingShaderProgram
    \/ PrintOutActiveUniforms
    \/ ConfigureVertexAttributes
    \/ GetUniformName
    \/ GetGLVertexAttributeConfiguration
    \/ GetUsedVertexAttributeVariables
    \/ GetVertexAttributeVariableName
    \/ GetUniformLocation
    \/ SetUniform

Spec == Init /\ [][Next]_vars

\* ------------------------------------------------------------------ claims
Range(seq) == { seq[i] : i \in DOMAIN seq }
CallsOf(fns) == { i \in DOMAIN last.calls : last.calls[i].fn \in fns }
Catalogued(type) == type \in DOMAIN shader_catalog
Created(type) == type \in DOMAIN created_shaders
ConstructorReturned == last.op = "ShaderCache" /\ last.raised = NoException

\* C1: when the constructor has returned, get_shader_program(t) of every
\* requested type t does not raise and returns a live program handle that
\* glCreateProgram handed to a create_shader_program(t) call.
C1_RequestedTypesAreGettable ==
    ConstructorReturned =>
        \A t \in Range(last.args.requested_shaders) :
            LET got == get_shader_program(Entry, t)
            IN  /\ Catalogued(t)
                /\ ~Raised(got)
                /\ got.ret.id \in Range(obtained[t])
                /\ got.ret.id \in live_programs

C1_Witness ==
    /\ ConstructorReturned
    /\ Len(last.args.requested_shaders) = 2
    /\ last.args.requested_shaders[1] # last.args.requested_shaders[2]
    /\ get_shader_program(Entry, last.args.requested_shaders[2]).ret.id = 4

\* C2: create_shader_program of a type that is not in the catalog raises
\* "Shader type not found", leaves created_shaders as it was, and creates no
\* program and no shader-stage object (it makes no driver call at all); a
\* constructor whose first requested type is not in the catalog does the same.
C2_UncataloguedCreatesNothing ==
    [][ ( \/ /\ last'.op = "create_shader_program"
             /\ ~Catalogued(last'.args.type)
          \/ /\ last'.op = "ShaderCache"
             /\ last'.args.requested_shaders # << >>
             /\ ~Catalogued(last'.args.requested_shaders[1]) )
        => /\ last'.raised = TypeNotFound
           /\ created_shaders' = created_shaders
           /\ next_id' = next_id
           /\ live_programs' = live_programs
           /\ live_shaders' = live_shaders
           /\ last'.calls = << >> ]_vars

C2_Witness ==
    /\ last.op = "create_shader_program"
    /\ last.raised = TypeNotFound
    /\ DOMAIN created_shaders # {}

\* C3: get_shader_program(t) raises "Shader program not found" exactly when
\* no create_shader_program(t) has ever succeeded, and it never changes the
\* stored entries.
C3_GetRaisesIffNeverCreated ==
    [][ last'.op = "get_shader_program"
        => /\ (last'.raised = ProgramNotFound) <=> (obtained[last'.args.type] = << >>)
           /\ (last'.raised = NoException) <=> Created(last'.args.type)
           /\ last'.raised \in { ProgramNotFound, NoException }
           /\ created_shaders' = created_shaders ]_vars

C3_Witness ==
    /\ last.op = "get_shader_program"
    /\ last.raised = ProgramNotFound
    /\ Catalogued(last.args.type)
    /\ DOMAIN created_shaders # {}

\* C4: once the cache is destroyed no program the cache created is live:
\* every program the driver still holds is one the destructor has deleted
\* (the program that is current stays, flagged for deletion, until another
\* one is made current).
C4_DestroyReleasesEveryProgram ==
    phase = "destroyed" => live_programs \subseteq flagged_programs

\* C5: set_uniform of a created type, when the driver has no location for
\* the uniform's name (-1), does not raise and makes no upload call, whatever
\* the overload.
UploadCalls == { UploadCall(overload) : overload \in SetUniformOverloads }

C5_AbsentUniformUploadsNothing ==
    ( /\ last.op = "set_uniform"
      /\ Created(last.args.type)
      /\ last.args.location = -1 )
    => /\ last.raised = NoException
       /\ CallsOf(UploadCalls) = {}
       /\ \E i \in DOMAIN last.calls :
             /\ last.calls[i].fn = "glGetUniformLocation"
             /\ last.calls[i].result = -1

C5_Witness ==
    /\ last.op = "set_uniform"
    /\ Created(last.args.type)
    /\ created_shaders[last.args.type].id \in linked_programs
    /\ last.args.uniform \in DOMAIN shader_uniform_variable_to_name
    /\ last.args.overload = "mat4"
    /\ last.args.location = -1

\* C6: configure_vertex_attributes_for_drawables_vao of a created type and an
\* attribute with a registered layout enables exactly one attribute slot, and
\* describes that slot with the registered layout.
C6_ConfigureEnablesOneSlot ==
    ( /\ last.op = "configure_vertex_attributes_for_drawables_vao"
      /\ Created(last.args.type)
      /\ last.args.variable \in DOMAIN shader_vertex_attribute_to_glva_configuration )
    => LET config == shader_vertex_attribute_to_glva_configuration[last.args.variable]
           enabled == { i \in CallsOf({ "glEnableVertexAttribArray" }) :
                          ValidAttribIndex(last.calls[i].index) }
           described == { i \in CallsOf({ "glVertexAttribPointer" }) :
                            /\ last.calls[i].valid
                            /\ last.calls[i].size = config.components_per_vertex
                            /\ last.calls[i].type = config.data_type_of_component
                            /\ last.calls[i].normalized = config.normalize
                            /\ last.calls[i].stride = config.stride
                            /\ last.calls[i].pointer = config.pointer_to_start_of_data }
       IN  /\ last.raised = NoException
           /\ Cardinality(enabled) = 1
           /\ Cardinality(described) = 1
           /\ \A i \in enabled, j \in described :
                 /\ last.calls[i].index = last.calls[j].index
                 /\ last.calls[i].index.lo = last.args.location
                 /\ << last.args.vao, last.calls[i].index.lo >> \in enabled_slots

\* C7: use_shader_program, set_uniform, get_uniform_location,
\* configure_vertex_attributes_for_drawables_vao and
\* print_out_active_uniforms_in_shader of a type that was never created raise
\* "Shader program not found" and leave the driver as it was: they make no
\* driver call.
TypeOperations ==
    { "use_shader_program", "set_uniform", "get_uniform_location",
      "configure_vertex_attributes_for_drawables_vao",
      "print_out_active_uniforms_in_shader" }

C7_MissingTypeTouchesNothing ==
    [][ ( /\ last'.op \in TypeOperations
          /\ ~Created(last'.args.type) )
        => /\ last'.raised = ProgramNotFound
           /\ active_program' = active_program
           /\ bound_vao' = bound_vao
           /\ bound_buffer' = bound_buffer
           /\ enabled_slots' = enabled_slots
           /\ last'.calls = << >> ]_vars

C7_Witness ==
    /\ last.op = "set_uniform"
    /\ last.raised = ProgramNotFound
    /\ Catalogued(last.args.type)
    /\ active_program # 0

\* C8: after create_shader_program(t) has returned, the entry of t holds the
\* handle that this call obtained.
C8_CreateOverwrites ==
    ( /\ last.op = "create_shader_program"
      /\ last.raised = NoException )
    => created_shaders[last.args.type].id
          = obtained[last.args.type][Len(obtained[last.args.type])]

\* C9: get_uniform_name, get_vertex_attribute_variable_name and
\* get_gl_vertex_attribute_configuration_for_vertex_attribute_variable each
\* raise for a value that is not registered.
NameLookups ==
    { "get_vertex_attribute_variable_name",
      "get_gl_vertex_attribute_configuration_for_vertex_attribute_variable" }

C9_EveryTableLookupRaises ==
    /\ ( /\ last.op = "get_uniform_name"
         /\ last.args.uniform \notin DOMAIN shader_uniform_variable_to_name )
       => last.raised # NoException
    /\ ( /\ last.op \in NameLookups
         /\ last.args.variable \notin ShaderVertexAttributeVariableValues )
       => last.raised # NoException

\* C10: create_shader_program of a catalogued type never raises, whatever the
\* file reads, the compilations and the link answer, and leaves an entry for
\* the type; a constructor whose requested types are all catalogued creates a
\* program for every one of them and returns.
FailureReported ==
    \E i \in CallsOf({ "console_logger" }) : last.calls[i].level = "error"

C10_DriverFailuresDoNotRaise ==
    /\ ( /\ last.op = "create_shader_program"
         /\ Catalogued(last.args.type) )
       => /\ last.raised = NoException
          /\ Created(last.args.type)
          /\ Cardinality(CallsOf({ "glCreateProgram" })) = 1
    /\ ( /\ last.op = "ShaderCache"
         /\ \A t \in Range(last.args.requested_shaders) : Catalogued(t) )
       => /\ last.raised = NoException
          /\ \A t \in Range(last.args.requested_shaders) : Created(t)
          /\ Cardinality(CallsOf({ "glCreateProgram" })) = Len(last.args.requested_shaders)

\* the first requested program failed to link, the second was still created
C10_Witness ==
    /\ last.op = "ShaderCache"
    /\ Len(last.args.requested_shaders) = 2
    /\ FailureReported
    /\ 1 \in live_programs \ linked_programs
    /\ 4 \in linked_programs
    /\ Cardinality(DOMAIN created_shaders) = 2

\* C11 as claimed: after set_uniform of a created type has returned, the
\* active program is the type's handle.
C11_SetUniformLeavesProgramActive ==
    ( /\ last.op = "set_uniform"
      /\ Created(last.args.type) )
    => active_program = created_shaders[last.args.type].id

\* C11 amended: set_uniform of a created type calls glUseProgram with the
\* type's handle before it asks for the uniform's location and before any
\* upload, whether or not the uniform is found; when it returns, the active
\* program is the type's handle if that program is linked, and is the
\* program that was active before if it is not (the driver refuses to make a
\* program current that failed to link).
C11_SetUniformActivatesFirst ==
    [][ ( /\ last'.op = "set_uniform"
          /\ Created(last'.args.type) )
        => LET id == created_shaders[last'.args.type].id
               calls == last'.calls
           IN  /\ last'.raised = NoException
               /\ calls # << >>
               /\ calls[1].fn = "glUseProgram"
               /\ calls[1].program = id
               /\ \A i \in DOMAIN calls :
                     calls[i].fn \in UploadCalls \cup { "glGetUniformLocation" } => i > 1
               /\ \E i \in DOMAIN calls : calls[i].fn = "glGetUniformLocation"
               /\ active_program' = IF id \in linked_programs THEN id ELSE active_program ]_vars

\* the uniform was not found, and the program made current is not the one
\* that was created first
C11_Witness ==
    /\ last.op = "set_uniform"
    /\ Created(last.args.type)
    /\ last.args.location = -1
    /\ created_shaders[last.args.type].id = 4
    /\ active_program = 4
    /\ 1 \in linked_programs

\* C12 as claimed: when create_shader_program (called by the constructor or
\* afterwards) has returned, every shader-stage object it created has been
\* deleted, and glDeleteShader of a stage comes after glLinkProgram of the
\* program the stage is attached to; no operation but the destructor deletes
\* a program.
StageReleasedAfterLink(calls, i) ==
    \E a \in DOMAIN calls :
        /\ i < a
        /\ calls[a].fn = "glAttachShader"
        /\ calls[a].shader = calls[i].result
        /\ \E l \in DOMAIN calls :
              /\ a < l
              /\ calls[l].fn = "glLinkProgram"
              /\ calls[l].program = calls[a].program
              /\ \E k \in DOMAIN calls :
                    /\ l < k
                    /\ calls[k].fn = "glDeleteShader"
                    /\ calls[k].shader = calls[i].result

OnlyDestructorDeletesPrograms ==
    last'.op # "~ShaderCache"
       => /\ live_programs \subseteq live_programs'
          /\ flagged_programs' = flagged_programs
          /\ \A i \in DOMAIN last'.calls : last'.calls[i].fn # "glDeleteProgram"

C13_ConfigureLeavesNoVaoBound ==
    ( /\ last.op = "configure_vertex_attributes_for_drawables_vao"
      /\ last.raised \in { NoException, OutOfRange } )
    => bound_vao = 0

\* C14: after a constructor that failed on a requested type that is not in
\* the catalog, no program created for the types before it is live.
C14_FailedConstructionLeaksNothing ==
    phase = "construction_failed" => live_programs = {}
====
